---- MODULE Spec2Model ----
(***************************************************************************)
(* PaymentsService (src/src/services/payments/payments.service.ts).        *)
(*                                                                         *)
(* Two invocations of the public entry points chargeSubscription,          *)
(* chargeDonation and chargePromotion run against one user record, one     *)
(* custodial account on the ledger and one entitlement store.  Every       *)
(* `await` of the source is a yield point: an action is the completion of  *)
(* one awaited call together with the synchronous code that follows it up  *)
(* to the next await or return.                                            *)
(***************************************************************************)
EXTENDS Integers, FiniteSets, Sequences, TLC

VARIABLES
    userExists,  \* the user row is present in the store
    subs,        \* stored Subscription per platform: [plan, periodEnd]
    donated,     \* the user's donated flag
    promos,      \* number of PromotionPurchase rows per promotion type
    lamports,    \* spendable balance of the user's account on the ledger
    now,         \* clock, in ticks
    pc,          \* per invocation: the await it is suspended at
    req,         \* per invocation: entry point and arguments
    user,        \* per invocation: `user` local: unread, absent or found
    subscription,\* per invocation: `subscription` local (snapshot of the row)
    balance,     \* per invocation: `balance` local ({} is undefined)
    startBal,    \* per invocation: ledger balance when the call was made
    queries,     \* per invocation: number of getAccountBalance calls
    xfers,       \* per invocation: amounts handed to the transfer, in order
    xferRes,     \* per invocation: outcome of its transfer
    writes,      \* per invocation: entitlement-store write calls issued
    storeRes,    \* per invocation: how its entitlement-store write call ended
    stored,      \* per invocation: the period end its subscription write stored
    promMsg,     \* per invocation: `promMessage` local ("" before the answer)
    res,         \* per invocation: what the caller receives
    clock,       \* UserService: Date.now(), in hours
    freeDailyMessages, \* config.freeDailyMessages: per user id, the entry
    users,       \* per getActiveUsers call: the `users` argument
    idx,         \* per getActiveUsers call: position of the for loop
    upc,         \* per getActiveUsers call: the await it is suspended at
    activeUsers, \* per getActiveUsers call: `activeUsers` local
    sending,     \* per getActiveUsers call: a sendMessage is in flight
    activations, \* per user: times returned as active since the last reset
    notified,    \* per user: limit-reached messages since the last reset
    due,         \* per call: users met with a notification over 6 h old
    resetBy,     \* per call: users whose counter the call has reset
    pushCount,   \* per call: per user, the count right after its increment
    feed,        \* BoostsSchedule: the token's entry in the DexScreener feed
    dexScreenerCache, \* the cached boost of the token ({} when not cached)
    bpc,         \* per executeTask run: the await it is suspended at
    boostedToken,\* per executeTask run: the feed entry it fetched
    cachedBoost, \* per executeTask run: `cachedBoost` local
    boostsSent   \* per user: boost messages sent for the current feed entry

vars == <<userExists, subs, donated, promos, lamports, now, pc, req, user,
          subscription, balance, startBal, queries, xfers, xferRes, writes,
          storeRes, stored, promMsg, res, clock, freeDailyMessages, users,
          idx, upc, activeUsers, sending, activations, notified, due,
          resetBy, pushCount, feed, dexScreenerCache, bpc, boostedToken,
          cachedBoost, boostsSent>>

storeVars == <<userExists, subs, donated, promos>>

callVars == <<pc, req, user, subscription, balance, startBal, queries, xfers,
              xferRes, writes, storeRes, stored, promMsg, res>>

paymentVars == <<storeVars, lamports, now, callVars>>

userVars == <<clock, freeDailyMessages, users, idx, upc, activeUsers, sending,
              activations, notified, due, resetBy, pushCount>>

boostVars == <<feed, dexScreenerCache, bpc, boostedToken, cachedBoost,
               boostsSent>>

-----------------------------------------------------------------------------
(* Bounds and domains *)

MaxNow == 1

Procs == {"a", "b"}

Platforms == {"BOOSTS", "TRADING"}

SubscriptionPlan == {"FREE", "HOBBY", "PRO"}

NoPlan == "NONE"

PromotionTypes == {"STACKABLE", "NON_STACKABLE"}

Donations == {0, 1}

PromotionAmts == {1}

MaxClock == 9

ClockStep == 3

UserIds == {"free", "trial", "paid"}

UserLists == {<<"free", "paid">>, <<"paid", "trial", "free">>}

\* The users prismaUserRepository.getAllWithPlatform(BOOSTS) finds.
BoostsUsers == <<"paid", "free">>

MaxTotalAmount == 200

FeedAmounts == {50, 100}

ChainIds == {"solana", "ethereum"}

-----------------------------------------------------------------------------
(* Constants of the program *)

SIGNATURE_FEE == 5000

LAMPORTS_PER_SOL == 1000000000

HOBBY_PLAN_FEE == 500000

PRO_PLAN_FEE == 1000000

MAX_HOBBY_PERIOD == 3

MAX_PRO_PERIOD == 5

DayTicks == 2

SUBSCRIPTION_HIERARCHY == [p \in SubscriptionPlan |->
    CASE p = "FREE" -> 0 [] p = "HOBBY" -> 1 [] p = "PRO" -> 2]

NO_USER_FOUND == "NO_USER_FOUND"
USER_ALREADY_PAID == "USER_ALREADY_PAID"
INVALID_PLAN == "INVALID_PLAN"
INSUFFICIENT_BALANCE == "INSUFFICIENT_BALANCE"
INTERNAL_ERROR == "INTERNAL_ERROR"
PLAN_UPGRADED == "PLAN_UPGRADED"
DONATION_MADE == "DONATION_MADE"
TRANSACTION_SUCCESS == "TRANSACTION_SUCCESS"

PaymentsMessageEnum == {NO_USER_FOUND, USER_ALREADY_PAID, INVALID_PLAN,
    INSUFFICIENT_BALANCE, INTERNAL_ERROR, PLAN_UPGRADED, DONATION_MADE,
    TRANSACTION_SUCCESS}

MAX_FREE_DAILY_MESSAGES == 2

\* `userSubscriptions` of the users handed to getActiveUsers.
userSubscriptions(u) ==
    CASE u = "free"  -> {[platform |-> "BOOSTS", plan |-> "FREE"],
                         [platform |-> "TRADING", plan |-> "PRO"]}
      [] u = "trial" -> {}
      [] u = "paid"  -> {[platform |-> "BOOSTS", plan |-> "HOBBY"]}

InitialBalances == {0, HOBBY_PLAN_FEE - 1, HOBBY_PLAN_FEE, PRO_PLAN_FEE - 1,
    PRO_PLAN_FEE, PRO_PLAN_FEE + HOBBY_PLAN_FEE, LAMPORTS_PER_SOL - 1,
    LAMPORTS_PER_SOL}

-----------------------------------------------------------------------------
(* Pure helpers of PaymentsService *)

\* userPlan === plan || HIERARCHY[userPlan ?? 'FREE'] > HIERARCHY[plan]
isInvalidUpgrade(plan, userPlan) ==
    \/ userPlan = plan
    \/ SUBSCRIPTION_HIERARCHY[IF userPlan = NoPlan THEN "FREE" ELSE userPlan]
           > SUBSCRIPTION_HIERARCHY[plan]

\* { HOBBY: HOBBY_PLAN_FEE, PRO: PRO_PLAN_FEE }[plan]; {} is undefined.
getPlanFee(plan) ==
    CASE plan = "HOBBY" -> {HOBBY_PLAN_FEE}
      [] plan = "PRO"   -> {PRO_PLAN_FEE}
      [] OTHER          -> {}

\* { HOBBY: MAX_HOBBY_PERIOD, PRO: MAX_PRO_PERIOD }[plan]; {} is undefined.
subscriptionPeriod(plan) ==
    CASE plan = "HOBBY" -> {MAX_HOBBY_PERIOD}
      [] plan = "PRO"   -> {MAX_PRO_PERIOD}
      [] OTHER          -> {}

\* format(date, 'MM/dd/yyyy'): the calendar day of the instant.
format(t) == t \div DayTicks

\* `!balance`: undefined, null and 0 are falsy.
balanceFalsy(b) == b = {} \/ b = {0}

\* balance >= planFee without the equality.
hasFunds_strict(b, fee) == \E x \in b : x > fee

\* `balance >= planFee`, `balance >= donationLamports`, ...
hasFunds(b, fee) == \E x \in b : x >= fee

\* only the reserve is transferred.
subscriptionTransferAmount_onlyReserve(planFee) == SIGNATURE_FEE

\* planFee - this.SIGNATURE_FEE
subscriptionTransferAmount(planFee) == planFee - SIGNATURE_FEE

\* donation * LAMPORTS_PER_SOL
donationLamports(donation) == donation * LAMPORTS_PER_SOL

\* donationLamports - this.SIGNATURE_FEE
donationTransferAmount(donation) == donationLamports(donation) - SIGNATURE_FEE

\* promotionAmt * LAMPORTS_PER_SOL
promotionAmtLamports(promotionAmt) == promotionAmt * LAMPORTS_PER_SOL

\* promotionAmt - this.SIGNATURE_FEE
promotionTransferAmount(promotionAmt) == promotionAmt - SIGNATURE_FEE

\* `if (!confirmed)` dropped: an unconfirmed transfer goes on to the write.
transferConfirmed_unchecked(outcome) == outcome \in {"confirmed", "unconfirmed"}

\* `if (!confirmed) return INTERNAL_ERROR`
transferConfirmed(outcome) == outcome = "confirmed"

\* the refusal compared against a message the store never sends.
isNonStackableRefusal_wrongText(promMessage) ==
    promMessage = "Promotion already purchased"

\* promMessage === 'Non-stackable promotion already purchased'
isNonStackableRefusal(promMessage) ==
    promMessage = "Non-stackable promotion already purchased"

-----------------------------------------------------------------------------
(* Collaborators: the ledger, the balance oracle and the entitlement store *)

\* What a confirmed transfer of `amount` takes from the sender.  A negative
\* amount is malformed input: the instruction encoder may carry its magnitude
\* or nothing at all.
ledgerDebits(amount) ==
    IF amount >= 0 THEN {amount + SIGNATURE_FEE}
    ELSE {SIGNATURE_FEE, SIGNATURE_FEE - amount}

\* createAndSendNativeV0Tx: raises, returns unconfirmed, or is confirmed when
\* the account covers the debit.
transferOutcomes(amount) ==
    {<<"raise", 0>>, <<"unconfirmed", 0>>} \cup
    {<<"confirmed", d>> : d \in {x \in ledgerDebits(amount) : x <= lamports}}

\* getAccountBalance: the account's balance, or nothing when the query fails.
balanceReadings == {{lamports}, {}}

\* A store call completes or rejects.
storeOutcomes == {"ok", "raise"}

\* buyPromotion: the store's answer for `type`.
promotionMessages(type) ==
    IF type = "NON_STACKABLE" /\ promos[type] >= 1
    THEN {"Non-stackable promotion already purchased"}
    ELSE {"Promotion purchased", "Promotion not found"}

-----------------------------------------------------------------------------
(* Invocation bookkeeping *)

pending == [kind |-> "pending", success |-> FALSE, message |-> "",
            subscriptionEnd |-> {}]

thrown == [kind |-> "throw", success |-> FALSE, message |-> "",
           subscriptionEnd |-> {}]

outcome(success, message, subscriptionEnd) ==
    [kind |-> "return", success |-> success, message |-> message,
     subscriptionEnd |-> subscriptionEnd]

Return(p, success, message, subscriptionEnd) ==
    /\ res' = [res EXCEPT ![p] = outcome(success, message, subscriptionEnd)]
    /\ pc' = [pc EXCEPT ![p] = "done"]

Throw(p) ==
    /\ res' = [res EXCEPT ![p] = thrown]
    /\ pc' = [pc EXCEPT ![p] = "done"]

Goto(p, label) ==
    /\ pc' = [pc EXCEPT ![p] = label]
    /\ UNCHANGED res

noRequest == [op |-> "none", plan |-> "FREE", platform |-> "BOOSTS",
              amount |-> 0, type |-> "STACKABLE", held |-> FALSE]

noSubscription == [plan |-> NoPlan, periodEnd |-> {}]

\* No entry point has been invoked.
noInvocation ==
    /\ now = 0
    /\ pc = [p \in Procs |-> "idle"]
    /\ req = [p \in Procs |-> noRequest]
    /\ user = [p \in Procs |-> "unread"]
    /\ subscription = [p \in Procs |-> noSubscription]
    /\ balance = [p \in Procs |-> {}]
    /\ startBal = [p \in Procs |-> 0]
    /\ queries = [p \in Procs |-> 0]
    /\ xfers = [p \in Procs |-> <<>>]
    /\ xferRes = [p \in Procs |-> "none"]
    /\ writes = [p \in Procs |-> {}]
    /\ storeRes = [p \in Procs |-> "none"]
    /\ stored = [p \in Procs |-> {}]
    /\ promMsg = [p \in Procs |-> ""]
    /\ res = [p \in Procs |-> pending]

\* config.freeDailyMessages.get(userId) of a user the map has no entry for.
noEntry == [present |-> FALSE, count |-> 0, maxMessagesNotifiedAt |-> {}]

\* `new Map()`, and no getActiveUsers call has been made.
noActiveUsersCall ==
    /\ clock = 0
    /\ freeDailyMessages = [u \in UserIds |-> noEntry]
    /\ users = [p \in Procs |-> <<>>]
    /\ idx = [p \in Procs |-> 1]
    /\ upc = [p \in Procs |-> "idle"]
    /\ activeUsers = [p \in Procs |-> <<>>]
    /\ sending = [p \in Procs |-> FALSE]
    /\ activations = [u \in UserIds |-> 0]
    /\ notified = [u \in UserIds |-> 0]
    /\ due = [p \in Procs |-> {}]
    /\ resetBy = [p \in Procs |-> {}]
    /\ pushCount = [p \in Procs |-> [u \in UserIds |-> 0]]

\* No feed entry fetched.
noFeed == [totalAmount |-> 0, amount |-> 0, chainId |-> "solana"]

\* An empty DexScreenerCache, and the cron job has not fired.
noTaskRun ==
    /\ dexScreenerCache = {}
    /\ bpc = [p \in Procs |-> "idle"]
    /\ boostedToken = [p \in Procs |-> noFeed]
    /\ cachedBoost = [p \in Procs |-> {}]
    /\ boostsSent = [u \in UserIds |-> 0]

Init ==
    /\ userExists \in BOOLEAN
    /\ subs \in [Platforms -> {noSubscription} \cup
                   {[plan |-> pl, periodEnd |-> subscriptionPeriod(pl)] :
                        pl \in SubscriptionPlan}]
    /\ donated = FALSE
    /\ promos \in [PromotionTypes -> {0, 1}]
    /\ promos["STACKABLE"] = 0
    /\ lamports \in InitialBalances
    /\ noInvocation
    /\ noActiveUsersCall
    /\ feed = noFeed
    /\ noTaskRun

\* a failed submission submitted again.
transferFailed_retry(p) == Goto(p, pc[p])

\* `if (!confirmed) return INTERNAL_ERROR` and `catch (error) { return
\* INTERNAL_ERROR }`: a failed or unconfirmed transfer ends the invocation.
transferFailed(p) == Return(p, FALSE, INTERNAL_ERROR, {})

-----------------------------------------------------------------------------
(* Entry: a caller invokes one entry point *)

CallChargeSubscription(p) ==
    /\ pc[p] = "idle"
    /\ \E plan \in SubscriptionPlan, platform \in Platforms :
         req' = [req EXCEPT ![p] = [op |-> "subscription", plan |-> plan,
                    platform |-> platform, amount |-> 0, type |-> "STACKABLE",
                    held |-> FALSE]]
    /\ startBal' = [startBal EXCEPT ![p] = lamports]
    /\ pc' = [pc EXCEPT ![p] = "sub_getById"]
    /\ UNCHANGED <<storeVars, lamports, now, user, subscription, balance,
                   queries, xfers, xferRes, writes, storeRes, stored,
                   promMsg, res>>
    /\ UNCHANGED <<userVars, boostVars>>

CallChargeDonation(p) ==
    /\ pc[p] = "idle"
    /\ \E donation \in Donations :
         req' = [req EXCEPT ![p] = [op |-> "donation", plan |-> "FREE",
                    platform |-> "BOOSTS", amount |-> donation,
                    type |-> "STACKABLE", held |-> FALSE]]
    /\ startBal' = [startBal EXCEPT ![p] = lamports]
    /\ pc' = [pc EXCEPT ![p] = "don_getById"]
    /\ UNCHANGED <<storeVars, lamports, now, user, subscription, balance,
                   queries, xfers, xferRes, writes, storeRes, stored,
                   promMsg, res>>
    /\ UNCHANGED <<userVars, boostVars>>

CallChargePromotion(p) ==
    /\ pc[p] = "idle"
    /\ \E promotionAmt \in PromotionAmts, promotionType \in PromotionTypes :
         req' = [req EXCEPT ![p] = [op |-> "promotion", plan |-> "FREE",
                    platform |-> "BOOSTS", amount |-> promotionAmt,
                    type |-> promotionType,
                    held |-> promos[promotionType] >= 1]]
    /\ startBal' = [startBal EXCEPT ![p] = lamports]
    /\ pc' = [pc EXCEPT ![p] = "prom_getById"]
    /\ UNCHANGED <<storeVars, lamports, now, user, subscription, balance,
                   queries, xfers, xferRes, writes, storeRes, stored,
                   promMsg, res>>
    /\ UNCHANGED <<userVars, boostVars>>

-----------------------------------------------------------------------------
(* chargeSubscription *)

\* await getById; !user; find; isInvalidUpgrade
chargeSubscription_getById(p) ==
    /\ pc[p] = "sub_getById"
    /\ \E o \in storeOutcomes :
         IF o = "raise" THEN Throw(p) /\ UNCHANGED <<user, subscription>>
         ELSE IF ~userExists
         THEN /\ user' = [user EXCEPT ![p] = "absent"]
              /\ Return(p, FALSE, NO_USER_FOUND, {})
              /\ UNCHANGED subscription
         ELSE LET sub == subs[req[p].platform] IN
              /\ user' = [user EXCEPT ![p] = "found"]
              /\ subscription' = [subscription EXCEPT ![p] = sub]
              /\ IF isInvalidUpgrade(req[p].plan, sub.plan)
                 THEN Return(p, FALSE, USER_ALREADY_PAID, {})
                 ELSE Goto(p, "sub_getBalance")
    /\ UNCHANGED <<storeVars, lamports, now, req, balance, startBal, queries,
                   xfers, xferRes, writes, storeRes, stored,
                   promMsg>>
    /\ UNCHANGED <<userVars, boostVars>>

\* await getAccountBalance; !balance; getPlanFee; !planFee; balance >= planFee
chargeSubscription_getBalance(p) ==
    /\ pc[p] = "sub_getBalance"
    /\ queries' = [queries EXCEPT ![p] = @ + 1]
    /\ \E b \in balanceReadings :
         /\ balance' = [balance EXCEPT ![p] = b]
         /\ LET planFee == getPlanFee(req[p].plan) IN
            IF balanceFalsy(b)
            THEN Return(p, FALSE, INSUFFICIENT_BALANCE, {})
            ELSE IF planFee = {}
            THEN Return(p, FALSE, INVALID_PLAN, {})
            ELSE IF \E fee \in planFee : hasFunds(b, fee)
            THEN Goto(p, "sub_transfer")
            ELSE IF subscription[p].plan = NoPlan
            THEN Goto(p, "sub_writeFree")
            ELSE Return(p, FALSE, INSUFFICIENT_BALANCE, {})
    /\ UNCHANGED <<storeVars, lamports, now, req, user, subscription,
                   startBal, xfers, xferRes, writes, storeRes, stored,
                   promMsg>>
    /\ UNCHANGED <<userVars, boostVars>>

\* try { createTransaction; getKeypairFromPrivateKey;
\*       await createAndSendNativeV0Tx; if (!confirmed) ... } catch ...
chargeSubscription_transfer(p) ==
    /\ pc[p] = "sub_transfer"
    /\ \E planFee \in getPlanFee(req[p].plan) :
       LET amount == subscriptionTransferAmount(planFee) IN
       /\ xfers' = [xfers EXCEPT ![p] = Append(@, amount)]
       /\ \E o \in transferOutcomes(amount) :
            /\ xferRes' = [xferRes EXCEPT ![p] = o[1]]
            /\ lamports' = IF o[1] = "confirmed" THEN lamports - o[2]
                           ELSE lamports
            /\ IF o[1] = "raise"
               THEN transferFailed(p)
               ELSE IF ~transferConfirmed(o[1])
               THEN transferFailed(p)
               ELSE Goto(p, "sub_update")
    /\ UNCHANGED <<storeVars, now, req, user, subscription, balance,
                   startBal, queries, writes, storeRes, stored,
                   promMsg>>
    /\ UNCHANGED <<userVars, boostVars>>

\* What the caller receives when the promise returned by
\* `return this.updateUserSubscription(...)` rejects: the promise is returned
\* from the try block without await, so the catch clause does not see it.
updateRejection(p) == Throw(p)

\* return this.updateUserSubscription(user.id, plan, platform)
chargeSubscription_update(p) ==
    /\ pc[p] = "sub_update"
    /\ writes' = [writes EXCEPT ![p] = @ \cup {"subscription"}]
    /\ \E o \in storeOutcomes :
         /\ storeRes' = [storeRes EXCEPT ![p] = o]
         /\ IF o = "raise"
            THEN updateRejection(p) /\ UNCHANGED <<subs, stored>>
            ELSE \E period \in subscriptionPeriod(req[p].plan) :
                 LET end == now + period IN
                 /\ subs' = [subs EXCEPT ![req[p].platform] =
                               [plan |-> req[p].plan, periodEnd |-> {end}]]
                 /\ stored' = [stored EXCEPT ![p] = {end}]
                 /\ Return(p, TRUE, PLAN_UPGRADED, {format(end)})
    /\ UNCHANGED <<userExists, donated, promos, lamports, now, req, user,
                   subscription, balance, startBal, queries, xfers, xferRes,
                   promMsg>>
    /\ UNCHANGED <<userVars, boostVars>>

\* if (!subscription?.plan) await updateUserSubscription(user.id, 'FREE', platform)
chargeSubscription_writeFree(p) ==
    /\ pc[p] = "sub_writeFree"
    /\ writes' = [writes EXCEPT ![p] = @ \cup {"free"}]
    /\ \E o \in storeOutcomes :
         /\ storeRes' = [storeRes EXCEPT ![p] = o]
         /\ IF o = "raise"
            THEN Throw(p) /\ UNCHANGED subs
            ELSE /\ subs' = [subs EXCEPT ![req[p].platform] =
                               [plan |-> "FREE", periodEnd |-> {}]]
                 /\ Return(p, FALSE, INSUFFICIENT_BALANCE, {})
    /\ UNCHANGED <<userExists, donated, promos, lamports, now, req, user,
                   subscription, balance, startBal, queries, xfers, xferRes,
                   stored, promMsg>>
    /\ UNCHANGED <<userVars, boostVars>>

-----------------------------------------------------------------------------
(* chargeDonation *)

\* await getById; !user
chargeDonation_getById(p) ==
    /\ pc[p] = "don_getById"
    /\ \E o \in storeOutcomes :
         IF o = "raise" THEN Throw(p) /\ UNCHANGED user
         ELSE IF ~userExists
         THEN /\ user' = [user EXCEPT ![p] = "absent"]
              /\ Return(p, FALSE, NO_USER_FOUND, {})
         ELSE /\ user' = [user EXCEPT ![p] = "found"]
              /\ Goto(p, "don_getBalance")
    /\ UNCHANGED <<storeVars, lamports, now, req, subscription, balance,
                   startBal, queries, xfers, xferRes, writes, storeRes, stored,
                   promMsg>>
    /\ UNCHANGED <<userVars, boostVars>>

\* await getAccountBalance; !balance; balance >= donationLamports
chargeDonation_getBalance(p) ==
    /\ pc[p] = "don_getBalance"
    /\ queries' = [queries EXCEPT ![p] = @ + 1]
    /\ \E b \in balanceReadings :
         /\ balance' = [balance EXCEPT ![p] = b]
         /\ IF balanceFalsy(b)
            THEN Return(p, FALSE, INSUFFICIENT_BALANCE, {})
            ELSE IF hasFunds(b, donationLamports(req[p].amount))
            THEN Goto(p, "don_transfer")
            ELSE Return(p, FALSE, INSUFFICIENT_BALANCE, {})
    /\ UNCHANGED <<storeVars, lamports, now, req, user, subscription,
                   startBal, xfers, xferRes, writes, storeRes, stored,
                   promMsg>>
    /\ UNCHANGED <<userVars, boostVars>>

\* try { createTransaction; await createAndSendNativeV0Tx; if (!confirmed) }
chargeDonation_transfer(p) ==
    /\ pc[p] = "don_transfer"
    /\ LET amount == donationTransferAmount(req[p].amount) IN
       /\ xfers' = [xfers EXCEPT ![p] = Append(@, amount)]
       /\ \E o \in transferOutcomes(amount) :
            /\ xferRes' = [xferRes EXCEPT ![p] = o[1]]
            /\ lamports' = IF o[1] = "confirmed" THEN lamports - o[2]
                           ELSE lamports
            /\ IF o[1] = "raise"
               THEN transferFailed(p)
               ELSE IF ~transferConfirmed(o[1])
               THEN transferFailed(p)
               ELSE Goto(p, "don_hasDonated")
    /\ UNCHANGED <<storeVars, now, req, user, subscription, balance,
                   startBal, queries, writes, storeRes, stored,
                   promMsg>>
    /\ UNCHANGED <<userVars, boostVars>>

\* await hasDonated(userId); return DONATION_MADE  (inside the try block)
chargeDonation_hasDonated(p) ==
    /\ pc[p] = "don_hasDonated"
    /\ writes' = [writes EXCEPT ![p] = @ \cup {"donated"}]
    /\ \E o \in storeOutcomes :
         /\ storeRes' = [storeRes EXCEPT ![p] = o]
         /\ IF o = "raise"
            THEN Return(p, FALSE, INTERNAL_ERROR, {}) /\ UNCHANGED donated
            ELSE donated' = TRUE /\ Return(p, TRUE, DONATION_MADE, {})
    /\ UNCHANGED <<userExists, subs, promos, lamports, now, req, user,
                   subscription, balance, startBal, queries, xfers, xferRes,
                   stored, promMsg>>
    /\ UNCHANGED <<userVars, boostVars>>

-----------------------------------------------------------------------------
(* chargePromotion *)

\* await getById; !user
chargePromotion_getById(p) ==
    /\ pc[p] = "prom_getById"
    /\ \E o \in storeOutcomes :
         IF o = "raise" THEN Throw(p) /\ UNCHANGED user
         ELSE IF ~userExists
         THEN /\ user' = [user EXCEPT ![p] = "absent"]
              /\ Return(p, FALSE, NO_USER_FOUND, {})
         ELSE /\ user' = [user EXCEPT ![p] = "found"]
              /\ Goto(p, "prom_getBalance")
    /\ UNCHANGED <<storeVars, lamports, now, req, subscription, balance,
                   startBal, queries, xfers, xferRes, writes, storeRes, stored,
                   promMsg>>
    /\ UNCHANGED <<userVars, boostVars>>

\* await getAccountBalance; !balance; balance >= promotionAmtLamports
chargePromotion_getBalance(p) ==
    /\ pc[p] = "prom_getBalance"
    /\ queries' = [queries EXCEPT ![p] = @ + 1]
    /\ \E b \in balanceReadings :
         /\ balance' = [balance EXCEPT ![p] = b]
         /\ IF balanceFalsy(b)
            THEN Return(p, FALSE, INSUFFICIENT_BALANCE, {})
            ELSE IF hasFunds(b, promotionAmtLamports(req[p].amount))
            THEN Goto(p, "prom_transfer")
            ELSE Return(p, FALSE, INSUFFICIENT_BALANCE, {})
    /\ UNCHANGED <<storeVars, lamports, now, req, user, subscription,
                   startBal, xfers, xferRes, writes, storeRes, stored,
                   promMsg>>
    /\ UNCHANGED <<userVars, boostVars>>

\* try { createTransaction; await createAndSendNativeV0Tx; if (!confirmed) }
chargePromotion_transfer(p) ==
    /\ pc[p] = "prom_transfer"
    /\ LET amount == promotionTransferAmount(req[p].amount) IN
       /\ xfers' = [xfers EXCEPT ![p] = Append(@, amount)]
       /\ \E o \in transferOutcomes(amount) :
            /\ xferRes' = [xferRes EXCEPT ![p] = o[1]]
            /\ lamports' = IF o[1] = "confirmed" THEN lamports - o[2]
                           ELSE lamports
            /\ IF o[1] = "raise"
               THEN transferFailed(p)
               ELSE IF ~transferConfirmed(o[1])
               THEN transferFailed(p)
               ELSE Goto(p, "prom_buyPromotion")
    /\ UNCHANGED <<storeVars, now, req, user, subscription, balance,
                   startBal, queries, writes, storeRes, stored,
                   promMsg>>
    /\ UNCHANGED <<userVars, boostVars>>

\* await buyPromotion(userId, promotionType); promMessage === '...'
chargePromotion_buyPromotion(p) ==
    /\ pc[p] = "prom_buyPromotion"
    /\ writes' = [writes EXCEPT ![p] = @ \cup {"promotion"}]
    /\ \E o \in storeOutcomes :
         /\ storeRes' = [storeRes EXCEPT ![p] = o]
         /\ IF o = "raise"
            THEN /\ Return(p, FALSE, INTERNAL_ERROR, {})
                 /\ UNCHANGED <<promos, promMsg>>
            ELSE \E message \in promotionMessages(req[p].type) :
                 /\ promMsg' = [promMsg EXCEPT ![p] = message]
                 /\ promos' = IF message = "Promotion purchased"
                              THEN [promos EXCEPT ![req[p].type] = @ + 1]
                              ELSE promos
                 /\ IF isNonStackableRefusal(message)
                    THEN Return(p, FALSE, USER_ALREADY_PAID, {})
                    ELSE Return(p, TRUE, TRANSACTION_SUCCESS, {})
    /\ UNCHANGED <<userExists, subs, donated, lamports, now, req, user,
                   subscription, balance, startBal, queries, xfers, xferRes,
                   stored>>
    /\ UNCHANGED <<userVars, boostVars>>

-----------------------------------------------------------------------------
(* The clock *)

Tick ==
    /\ now < MaxNow
    /\ now' = now + 1
    /\ UNCHANGED <<storeVars, lamports, pc, req, user, subscription, balance,
                   startBal, queries, xfers, xferRes, writes, storeRes,
                   stored, promMsg, res>>
    /\ UNCHANGED <<userVars, boostVars>>

Next ==
    \/ \E p \in Procs : CallChargeSubscription(p)
    \/ \E p \in Procs : CallChargeDonation(p)
    \/ \E p \in Procs : CallChargePromotion(p)
    \/ \E p \in Procs : chargeSubscription_getById(p)
    \/ \E p \in Procs : chargeSubscription_getBalance(p)
    \/ \E p \in Procs : chargeSubscription_transfer(p)
    \/ \E p \in Procs : chargeSubscription_update(p)
    \/ \E p \in Procs : chargeSubscription_writeFree(p)
    \/ \E p \in Procs : chargeDonation_getById(p)
    \/ \E p \in Procs : chargeDonation_getBalance(p)
    \/ \E p \in Procs : chargeDonation_transfer(p)
    \/ \E p \in Procs : chargeDonation_hasDonated(p)
    \/ \E p \in Procs : chargePromotion_getById(p)
    \/ \E p \in Procs : chargePromotion_getBalance(p)
    \/ \E p \in Procs : chargePromotion_transfer(p)
    \/ \E p \in Procs : chargePromotion_buyPromotion(p)
    \/ Tick

Spec == Init /\ [][Next]_vars

-----------------------------------------------------------------------------
(* UserService (src/src/services/users/user.service.ts)                    *)
(*                                                                         *)
(* getActiveUsers walks its argument in order.  It is suspended only at    *)
(* the two awaits of the loop, each after the map entry has been written,  *)
(* so the `dailyMessages` local always aliases the entry of the map: a     *)
(* resumed call reads what overlapping calls wrote in the meantime.        *)

\* @solana-bot/core: the time lies more than the interval before now.
isTimeOutsideIntervalMs(time, interval) == clock - time > interval

\* TelegramService.sendMessage resolves or rejects.
sendOutcomes == {"ok", "raise"}

isPaidSubscriber(u) ==
    \E sub \in userSubscriptions(u) :
        sub.platform = "BOOSTS" /\ sub.plan # "FREE"

\* `this.config.freeDailyMessages.get(userId) || { count: 0 }`
getDailyMessageData(map, userId) ==
    IF map[userId].present THEN map[userId] ELSE noEntry

\* the six hours shortened to one.
shouldResetDailyLimit_oneHour(dailyMessages) ==
    \E t \in dailyMessages.maxMessagesNotifiedAt :
        isTimeOutsideIntervalMs(t, 1)

\* `(maxMessagesNotifiedAt && isTimeOutsideIntervalMs(it, HOUR * 6)) ?? false`
shouldResetDailyLimit(dailyMessages) ==
    \E t \in dailyMessages.maxMessagesNotifiedAt :
        isTimeOutsideIntervalMs(t, 6)

\* the comparison off by one.
hasExceededDailyLimit_offByOne(dailyMessages) ==
    dailyMessages.count > MAX_FREE_DAILY_MESSAGES

hasExceededDailyLimit(dailyMessages) ==
    dailyMessages.count >= MAX_FREE_DAILY_MESSAGES

\* The part of the state one getActiveUsers call reads and writes.
current(p) ==
    [fdm |-> freeDailyMessages, active |-> activeUsers[p], idx |-> idx[p],
     upc |-> upc[p], sending |-> sending[p], acts |-> activations,
     notes |-> notified, due |-> due[p], resetBy |-> resetBy[p],
     pushCount |-> pushCount[p]]

Settle(p, s) ==
    /\ freeDailyMessages' = s.fdm
    /\ activeUsers' = [activeUsers EXCEPT ![p] = s.active]
    /\ idx' = [idx EXCEPT ![p] = s.idx]
    /\ upc' = [upc EXCEPT ![p] = s.upc]
    /\ sending' = [sending EXCEPT ![p] = s.sending]
    /\ activations' = s.acts
    /\ notified' = s.notes
    /\ due' = [due EXCEPT ![p] = s.due]
    /\ resetBy' = [resetBy EXCEPT ![p] = s.resetBy]
    /\ pushCount' = [pushCount EXCEPT ![p] = s.pushCount]

\* count++, map.set, and the push that follows in the loop.
incrementDailyMessageCount(userId, s) ==
    LET dailyMessages == getDailyMessageData(s.fdm, userId)
        count == dailyMessages.count + 1
    IN  [s EXCEPT !.fdm[userId] =
                      [present |-> TRUE, count |-> count,
                       maxMessagesNotifiedAt |->
                           dailyMessages.maxMessagesNotifiedAt],
                  !.active = Append(@, userId),
                  !.acts[userId] = @ + 1,
                  !.pushCount[userId] = count]

\* count = 0, time cleared, map.set; suspended at the await of sendMessage.
resetDailyLimit(userId, s) ==
    [s EXCEPT !.fdm[userId] = [present |-> TRUE, count |-> 0,
                               maxMessagesNotifiedAt |-> {}],
              !.acts[userId] = 0,
              !.notes[userId] = 0,
              !.resetBy = @ \cup {userId},
              !.sending = TRUE,
              !.upc = "reset_send"]

\* the time recorded and the message sent whether or not one was before.
notifyDailyLimitReached_unguarded(userId, s) ==
    [s EXCEPT !.fdm[userId].present = TRUE,
              !.fdm[userId].maxMessagesNotifiedAt = {clock},
              !.notes[userId] = @ + 1,
              !.sending = TRUE,
              !.upc = "notify_send"]

\* `if (!maxMessagesNotifiedAt) { time = new Date(); map.set; await send }`;
\* the caller awaits the method in both cases.
notifyDailyLimitReached(userId, s) ==
    IF getDailyMessageData(s.fdm, userId).maxMessagesNotifiedAt = {}
    THEN [s EXCEPT !.fdm[userId].present = TRUE,
                   !.fdm[userId].maxMessagesNotifiedAt = {clock},
                   !.notes[userId] = @ + 1,
                   !.sending = TRUE,
                   !.upc = "notify_send"]
    ELSE [s EXCEPT !.sending = FALSE, !.upc = "notify_send"]

\* The notification time is recorded and lies more than six hours back.
notifiedLongAgo(dailyMessages) ==
    \E t \in dailyMessages.maxMessagesNotifiedAt : clock - t > 6

RECURSIVE getActiveUsers_loop(_, _)
RECURSIVE getActiveUsers_checkLimit(_, _)

\* Lines 31-37 for the user at s.idx, then the rest of the loop.
getActiveUsers_checkLimit(list, s) ==
    LET userId == list[s.idx] IN
    IF hasExceededDailyLimit(getDailyMessageData(s.fdm, userId))
    THEN notifyDailyLimitReached(userId, s)
    ELSE getActiveUsers_loop(list,
             [incrementDailyMessageCount(userId, s) EXCEPT !.idx = @ + 1])

\* The for loop from position s.idx up to the next await or the return.
getActiveUsers_loop(list, s) ==
    IF s.idx > Len(list) THEN [s EXCEPT !.upc = "returned"]
    ELSE LET userId == list[s.idx]
             dailyMessages == getDailyMessageData(s.fdm, userId)
             met == IF notifiedLongAgo(dailyMessages)
                    THEN [s EXCEPT !.due = @ \cup {userId}] ELSE s
         IN  IF isPaidSubscriber(userId)
             THEN getActiveUsers_loop(list,
                      [s EXCEPT !.active = Append(@, userId), !.idx = @ + 1])
             ELSE IF shouldResetDailyLimit(dailyMessages)
                  THEN resetDailyLimit(userId, met)
                  ELSE getActiveUsers_checkLimit(list, met)

\* getActiveUsers(list) up to its first await or its return.
getActiveUsers(p, list) ==
    /\ users' = [users EXCEPT ![p] = list]
    /\ Settle(p, getActiveUsers_loop(list,
           [current(p) EXCEPT !.active = <<>>, !.idx = 1, !.sending = FALSE,
                              !.due = {}, !.resetBy = {},
                              !.pushCount = [u \in UserIds |-> 0]]))

CallGetActiveUsers(p) ==
    /\ bpc[p] = "idle"
    /\ upc[p] \in {"idle", "returned", "thrown"}
    /\ \E list \in UserLists : getActiveUsers(p, list)
    /\ UNCHANGED <<clock, paymentVars, boostVars>>

\* The rejection of an awaited sendMessage leaves getActiveUsers.
sendRejected(p) ==
    /\ upc' = [upc EXCEPT ![p] = "thrown"]
    /\ sending' = [sending EXCEPT ![p] = FALSE]
    /\ UNCHANGED <<freeDailyMessages, activeUsers, idx, activations,
                   notified, due, resetBy, pushCount>>

\* `await this.resetDailyLimit(...)` completes; the limit check follows.
resetDailyLimit_sent(p) ==
    /\ upc[p] = "reset_send"
    /\ \E o \in sendOutcomes :
         IF o = "raise" THEN sendRejected(p)
         ELSE Settle(p, getActiveUsers_checkLimit(users[p],
                            [current(p) EXCEPT !.sending = FALSE]))
    /\ UNCHANGED <<clock, users, paymentVars, boostVars>>

\* `await this.notifyDailyLimitReached(...)` completes; `continue`.
notifyDailyLimitReached_sent(p) ==
    /\ upc[p] = "notify_send"
    /\ \E o \in (IF sending[p] THEN sendOutcomes ELSE {"ok"}) :
         IF o = "raise" THEN sendRejected(p)
         ELSE Settle(p, getActiveUsers_loop(users[p],
                            [current(p) EXCEPT !.sending = FALSE,
                                               !.idx = @ + 1]))
    /\ UNCHANGED <<clock, users, paymentVars, boostVars>>

\* Time passes.
Advance ==
    /\ clock + ClockStep <= MaxClock
    /\ clock' = clock + ClockStep
    /\ UNCHANGED <<freeDailyMessages, users, idx, upc, activeUsers, sending,
                   activations, notified, due, resetBy, pushCount,
                   paymentVars, boostVars>>

\* The payments side at rest: one user, nothing bought, nothing invoked.
paymentsAtRest ==
    /\ userExists = TRUE
    /\ subs = [pl \in Platforms |-> noSubscription]
    /\ donated = FALSE
    /\ promos = [t \in PromotionTypes |-> 0]
    /\ lamports = 0
    /\ noInvocation

InitUsers ==
    /\ paymentsAtRest
    /\ noActiveUsersCall
    /\ feed = noFeed
    /\ noTaskRun

NextUsers ==
    \/ \E p \in Procs : CallGetActiveUsers(p)
    \/ \E p \in Procs : resetDailyLimit_sent(p)
    \/ \E p \in Procs : notifyDailyLimitReached_sent(p)
    \/ Advance

SpecUsers == InitUsers /\ [][NextUsers]_vars

-----------------------------------------------------------------------------
(* BoostsSchedule (src/unnamed/part_000)                                   *)
(*                                                                         *)
(* The cron job fires executeTask every 15 seconds whether or not the      *)
(* previous run has finished, so two runs may overlap.  The feed holds one *)
(* token; a run works on the entry it fetched.                             *)

\* dexScreenerService.getLatestBoostedTokens and
\* prismaUserRepository.getAllWithPlatform resolve or reject.
fetchOutcomes == {"ok", "raise"}

shouldProcessToken(token, cached) ==
    LET cachedTotal == IF cached = {} THEN 0
                       ELSE (CHOOSE c \in cached : TRUE).totalAmount
    IN  /\ token.totalAmount - cachedTotal >= 100
        /\ token.amount >= 100
        /\ token.chainId = "solana"

\* dexScreenerCache.update(tokenAddress, { amount, totalAmount, updatedAt })
updateCachedBoost(token) ==
    dexScreenerCache' =
        {[c EXCEPT !.amount = token.amount,
                   !.totalAmount = token.totalAmount] : c \in dexScreenerCache}

\* dexScreenerCache.save(tokenAddress, { ...boostedToken, ... })
createNewBoostedToken(token) ==
    dexScreenerCache' = {token}

\* executeTask settles: its locals are gone.
taskEnds(p) ==
    /\ bpc' = [bpc EXCEPT ![p] = "idle"]
    /\ boostedToken' = [boostedToken EXCEPT ![p] = noFeed]
    /\ cachedBoost' = [cachedBoost EXCEPT ![p] = {}]

\* The cron job fires: `await dexScreenerService.getLatestBoostedTokens()`.
ExecuteTask(p) ==
    /\ bpc[p] = "idle"
    /\ bpc' = [bpc EXCEPT ![p] = "getLatestBoostedTokens"]
    /\ UNCHANGED <<feed, dexScreenerCache, boostedToken, cachedBoost,
                   boostsSent, userVars, paymentVars>>

\* The feed arrives; processBoostedToken runs up to `await getPoolInfo`, or
\* returns at once and executeTask sleeps.
executeTask_tokens(p) ==
    /\ bpc[p] = "getLatestBoostedTokens"
    /\ \E o \in fetchOutcomes :
         IF o = "raise"
         THEN taskEnds(p)
         ELSE /\ boostedToken' = [boostedToken EXCEPT ![p] = feed]
              /\ cachedBoost' = [cachedBoost EXCEPT ![p] = dexScreenerCache]
              /\ bpc' = [bpc EXCEPT ![p] =
                            IF shouldProcessToken(feed, dexScreenerCache)
                            THEN "getPoolInfo" ELSE "sleep"]
    /\ UNCHANGED <<feed, dexScreenerCache, boostsSent, userVars, paymentVars>>

\* getPoolInfo resolves (it catches its own errors); the cache is written
\* from the `cachedBoost` read before the await; `await getAllWithPlatform`.
processBoostedToken_getPoolInfo(p) ==
    /\ bpc[p] = "getPoolInfo"
    /\ IF cachedBoost[p] # {}
       THEN updateCachedBoost(boostedToken[p])
       ELSE createNewBoostedToken(boostedToken[p])
    /\ bpc' = [bpc EXCEPT ![p] = "getAllWithPlatform"]
    /\ UNCHANGED <<feed, boostedToken, cachedBoost, boostsSent, userVars,
                   paymentVars>>

\* The users arrive and getActiveUsers runs up to its first await; a
\* rejection is caught and logged by executeTask.
processBoostedToken_getAllWithPlatform(p) ==
    /\ bpc[p] = "getAllWithPlatform"
    /\ \E o \in fetchOutcomes :
         IF o = "raise"
         THEN /\ taskEnds(p)
              /\ UNCHANGED <<freeDailyMessages, users, idx, upc, activeUsers,
                             sending, activations, notified, due, resetBy,
                             pushCount>>
         ELSE /\ bpc' = [bpc EXCEPT ![p] = "getActiveUsers"]
              /\ getActiveUsers(p, BoostsUsers)
              /\ UNCHANGED <<boostedToken, cachedBoost>>
    /\ UNCHANGED <<clock, feed, dexScreenerCache, boostsSent, paymentVars>>

\* getActiveUsers settles: one message per active user, not awaited; a
\* rejection is caught and logged by executeTask.  The call's locals are
\* gone.
processBoostedToken_notify(p) ==
    /\ bpc[p] = "getActiveUsers"
    /\ upc[p] \in {"returned", "thrown"}
    /\ IF upc[p] = "thrown"
       THEN /\ taskEnds(p)
            /\ UNCHANGED boostsSent
       ELSE /\ bpc' = [bpc EXCEPT ![p] = "sleep"]
            /\ boostsSent' =
                   [u \in UserIds |->
                       IF /\ boostedToken[p] = feed
                          /\ \E i \in 1..Len(activeUsers[p]) :
                                 activeUsers[p][i] = u
                       THEN boostsSent[u] + 1 ELSE boostsSent[u]]
            /\ UNCHANGED <<boostedToken, cachedBoost>>
    /\ upc' = [upc EXCEPT ![p] = "idle"]
    /\ users' = [users EXCEPT ![p] = <<>>]
    /\ idx' = [idx EXCEPT ![p] = 1]
    /\ activeUsers' = [activeUsers EXCEPT ![p] = <<>>]
    /\ due' = [due EXCEPT ![p] = {}]
    /\ resetBy' = [resetBy EXCEPT ![p] = {}]
    /\ pushCount' = [pushCount EXCEPT ![p] = [u \in UserIds |-> 0]]
    /\ UNCHANGED <<feed, dexScreenerCache, clock, freeDailyMessages, sending,
                   activations, notified, paymentVars>>

\* `await sleep(1000)` ends, and with it the loop over the one token.
executeTask_slept(p) ==
    /\ bpc[p] = "sleep"
    /\ taskEnds(p)
    /\ UNCHANGED <<feed, dexScreenerCache, boostsSent, userVars, paymentVars>>

\* The token is boosted again: a new feed entry.
FeedChange ==
    /\ \E amount \in FeedAmounts :
         /\ feed.totalAmount + amount <= MaxTotalAmount
         /\ feed' = [feed EXCEPT !.amount = amount,
                                 !.totalAmount = @ + amount]
    /\ boostsSent' = [u \in UserIds |-> 0]
    /\ UNCHANGED <<dexScreenerCache, bpc, boostedToken, cachedBoost,
                   userVars, paymentVars>>

InitBoosts ==
    /\ paymentsAtRest
    /\ noActiveUsersCall
    /\ feed \in {[totalAmount |-> amount, amount |-> amount, chainId |-> c] :
                    amount \in FeedAmounts, c \in ChainIds}
    /\ noTaskRun

NextBoosts ==
    \/ \E p \in Procs : ExecuteTask(p)
    \/ \E p \in Procs : executeTask_tokens(p)
    \/ \E p \in Procs : processBoostedToken_getPoolInfo(p)
    \/ \E p \in Procs : processBoostedToken_getAllWithPlatform(p)
    \/ \E p \in Procs : resetDailyLimit_sent(p)
    \/ \E p \in Procs : notifyDailyLimitReached_sent(p)
    \/ \E p \in Procs : processBoostedToken_notify(p)
    \/ \E p \in Procs : executeTask_slept(p)
    \/ FeedChange
    \/ Advance

SpecBoosts == InitBoosts /\ [][NextBoosts]_vars

-----------------------------------------------------------------------------
(* Properties *)

done(p) == pc[p] = "done"

returned(p, success, message) ==
    /\ done(p)
    /\ res[p].kind = "return"
    /\ res[p].success = success
    /\ res[p].message = message

rank(plan) == SUBSCRIPTION_HIERARCHY[IF plan = NoPlan THEN "FREE" ELSE plan]

\* C1: chargeSubscription, user found: whenever the rank of the requested
\* plan is at most the rank of the current plan (no Subscription for the
\* platform counting as FREE), the call returns USER_ALREADY_PAID and makes
\* no balance query and no transfer.
C1_NoUpgradeIsRejected ==
    \A p \in Procs :
        (/\ req[p].op = "subscription"
         /\ user[p] = "found"
         /\ rank(req[p].plan) <= rank(subscription[p].plan))
        => (/\ returned(p, FALSE, USER_ALREADY_PAID)
            /\ queries[p] = 0
            /\ xfers[p] = <<>>)

\* C2: in every entry point a transfer that raised or came back unconfirmed
\* ends the invocation with INTERNAL_ERROR and without any entitlement-store
\* write call; the paid-plan subscription write, the donated flag and the
\* promotion record are only ever issued after that invocation's transfer
\* was confirmed.
C2_NoWriteWithoutConfirmation ==
    \A p \in Procs :
        /\ xferRes[p] \in {"raise", "unconfirmed"}
              => (returned(p, FALSE, INTERNAL_ERROR) /\ writes[p] = {})
        /\ writes[p] \cap {"subscription", "donated", "promotion"} # {}
              => xferRes[p] = "confirmed"

C2_Witness ==
    \E p, q \in Procs :
        /\ xferRes[p] \in {"raise", "unconfirmed"}
        /\ returned(p, FALSE, INTERNAL_ERROR)
        /\ xferRes[q] = "confirmed"
        /\ writes[q] # {}
        /\ done(q)

\* C3: every finished invocation, whatever external call failed, hands the
\* caller an outcome carrying a reason code: nothing is thrown past the
\* entry point.
C3_NothingPropagates ==
    \A p \in Procs :
        done(p) => (res[p].kind = "return" /\ res[p].message \in PaymentsMessageEnum)

samePair(p, q) ==
    /\ p # q
    /\ req[p].op = "subscription"
    /\ req[q].op = "subscription"
    /\ req[p].platform = req[q].platform

\* The account covers one of the two charges and not both.
coversExactlyOne(b, p, q) ==
    \E fp \in getPlanFee(req[p].plan), fq \in getPlanFee(req[q].plan) :
        /\ b >= fp
        /\ b >= fq
        /\ b < fp + fq

C5_ShortBalanceIsInsufficient ==
    \A p \in Procs :
        (/\ req[p].op = "subscription"
         /\ done(p)
         /\ \E b \in balance[p], fee \in getPlanFee(req[p].plan) : b < fee)
        => (returned(p, FALSE, INSUFFICIENT_BALANCE) /\ xfers[p] = <<>>)

promotionRepeated(p) ==
    /\ req[p].op = "promotion"
    /\ req[p].type = "NON_STACKABLE"
    /\ req[p].held
    /\ hasFunds(balance[p], promotionAmtLamports(req[p].amount))
    /\ done(p)

\* C6 as stated: repeating the purchase of a held non-stackable promotion with
\* sufficient balance submits exactly one transfer and, once it is confirmed,
\* returns USER_ALREADY_PAID; no second record of the type is created.
C6_Original ==
    \A p \in Procs :
        promotionRepeated(p)
        => (/\ Len(xfers[p]) = 1
            /\ xferRes[p] = "confirmed" => returned(p, FALSE, USER_ALREADY_PAID)
            /\ promos[req[p].type] = 1)

\* C6 amended: as stated, except that when the record call itself rejects
\* after the confirmed transfer the outcome is INTERNAL_ERROR.
C6_RepeatedPromotion ==
    \A p \in Procs :
        promotionRepeated(p)
        => (/\ Len(xfers[p]) = 1
            /\ (xferRes[p] = "confirmed" /\ storeRes[p] = "ok")
                  => returned(p, FALSE, USER_ALREADY_PAID)
            /\ (xferRes[p] = "confirmed" /\ storeRes[p] = "raise")
                  => returned(p, FALSE, INTERNAL_ERROR)
            /\ promos[req[p].type] = 1)

C6_Witness ==
    \E p \in Procs :
        /\ promotionRepeated(p)
        /\ xferRes[p] = "confirmed"
        /\ lamports < startBal[p]
        /\ returned(p, FALSE, USER_ALREADY_PAID)

\* C7: chargeSubscription: whenever the balance is at least the plan price,
\* exactly one transfer is submitted, of price minus SIGNATURE_FEE, and when
\* it is confirmed the outcome is PLAN_UPGRADED carrying the formatted period
\* end of the subscription this call wrote.
C7_UpgradeCharged ==
    \A p \in Procs :
        (/\ req[p].op = "subscription"
         /\ done(p)
         /\ \E fee \in getPlanFee(req[p].plan) : hasFunds(balance[p], fee))
        => (/\ \E fee \in getPlanFee(req[p].plan) :
                  xfers[p] = <<fee - SIGNATURE_FEE>>
            /\ xferRes[p] = "confirmed"
                  => (/\ returned(p, TRUE, PLAN_UPGRADED)
                      /\ stored[p] # {}
                      /\ res[p].subscriptionEnd = {format(e) : e \in stored[p]}))

donationWith(p, b) ==
    /\ req[p].op = "donation"
    /\ done(p)
    /\ balance[p] = {b}

\* C8 as stated: for every donation amount, a balance equal to the amount
\* submits the transfer and on confirmation returns DONATION_MADE; a balance
\* of amount - 1 returns INSUFFICIENT_BALANCE and submits nothing.
C8_Original ==
    \A p \in Procs :
        /\ donationWith(p, donationLamports(req[p].amount))
              => (/\ Len(xfers[p]) = 1
                  /\ xferRes[p] = "confirmed" => returned(p, TRUE, DONATION_MADE))
        /\ donationWith(p, donationLamports(req[p].amount) - 1)
              => (returned(p, FALSE, INSUFFICIENT_BALANCE) /\ xfers[p] = <<>>)

\* C8 amended: for every positive donation amount, a balance equal to the
\* amount submits the transfer; on confirmation the call returns
\* DONATION_MADE when marking the user as donor succeeds and INTERNAL_ERROR
\* when that store call rejects; a balance of amount - 1 returns
\* INSUFFICIENT_BALANCE and submits nothing.
C8_DonationBoundary ==
    \A p \in Procs :
        req[p].amount > 0 =>
        /\ donationWith(p, donationLamports(req[p].amount))
              => (/\ Len(xfers[p]) = 1
                  /\ (xferRes[p] = "confirmed" /\ storeRes[p] = "ok")
                        => returned(p, TRUE, DONATION_MADE)
                  /\ (xferRes[p] = "confirmed" /\ storeRes[p] = "raise")
                        => returned(p, FALSE, INTERNAL_ERROR))
        /\ donationWith(p, donationLamports(req[p].amount) - 1)
              => (returned(p, FALSE, INSUFFICIENT_BALANCE) /\ xfers[p] = <<>>)

C8_Witness ==
    \E p \in Procs :
        /\ req[p].amount > 0
        /\ donationWith(p, donationLamports(req[p].amount))
        /\ xferRes[p] = "confirmed"
        /\ returned(p, TRUE, DONATION_MADE)

\* C9: chargePromotion submits for transfer the amount it compared against
\* the balance (the promotion amount in lamports) minus SIGNATURE_FEE, as
\* chargeDonation does.
C9_PromotionTransferAmount ==
    \A p \in Procs :
        (req[p].op = "promotion" /\ xfers[p] # <<>>)
        => xfers[p][1] = promotionAmtLamports(req[p].amount) - SIGNATURE_FEE

\* C10: chargeSubscription: when the subscription write fails after the
\* transfer was confirmed, the caller still receives the success outcome
\* PLAN_UPGRADED.
C10_WriteFailureStillSuccess ==
    \A p \in Procs :
        (/\ req[p].op = "subscription"
         /\ xferRes[p] = "confirmed"
         /\ storeRes[p] = "raise"
         /\ done(p))
        => returned(p, TRUE, PLAN_UPGRADED)

\* The subscription write of p was rejected although the row had changed
\* since p read it: the store detected a conflict.
conflictingWrite(p) ==
    /\ req[p].op = "subscription"
    /\ "subscription" \in writes[p]
    /\ storeRes[p] = "raise"
    /\ subs[req[p].platform] # subscription[p]

\* C11: chargeSubscription: when the store rejects the final subscription
\* write as conflicting, the invocation returns INTERNAL_ERROR.
C11_ConflictIsInternalError ==
    \A p \in Procs :
        (conflictingWrite(p) /\ done(p)) => returned(p, FALSE, INTERNAL_ERROR)

\* C12: chargeSubscription: with no Subscription for the platform and a
\* balance below the price, the call returns INSUFFICIENT_BALANCE whether
\* the FREE-tier write succeeds or fails.
C12_FreeWriteIsBestEffort ==
    \A p \in Procs :
        (/\ req[p].op = "subscription"
         /\ done(p)
         /\ subscription[p].plan = NoPlan
         /\ "free" \in writes[p]
         /\ \E b \in balance[p], fee \in getPlanFee(req[p].plan) : b < fee)
        => returned(p, FALSE, INSUFFICIENT_BALANCE)

\* C13: chargeSubscription: a request that passes the upgrade-validity rule
\* and whose plan has no price ends with INVALID_PLAN, whatever the balance
\* oracle returns.
C13_NoPriceIsInvalidPlan ==
    \A p \in Procs :
        (/\ req[p].op = "subscription"
         /\ done(p)
         /\ user[p] = "found"
         /\ ~isInvalidUpgrade(req[p].plan, subscription[p].plan)
         /\ getPlanFee(req[p].plan) = {})
        => returned(p, FALSE, INVALID_PLAN)

\* C14: every invocation of any entry point submits at most one transfer; a
\* transfer that raised or came back unconfirmed ends the invocation, with
\* no second submission.
C14_AtMostOneTransfer ==
    \A p \in Procs :
        /\ Len(xfers[p]) <= 1
        /\ xferRes[p] \in {"raise", "unconfirmed"} => done(p)
        /\ xferRes[p] # "none" => Len(xfers[p]) = 1

C14_Witness ==
    \E p, q \in Procs :
        /\ p # q
        /\ xferRes[p] = "unconfirmed"
        /\ xferRes[q] = "raise"
        /\ done(p)
        /\ done(q)

\* C15: the rank of the stored Subscription plan of a (user, platform) never
\* decreases, whatever calls run and however they interleave.
C15_PlanRankNeverDecreases ==
    [][\A pl \in Platforms : rank(subs'[pl].plan) >= rank(subs[pl].plan)]_vars

\* C16: a success outcome means that this invocation's transfer was confirmed
\* and its entitlement persisted: the subscription written for
\* PLAN_UPGRADED, the donated flag set for DONATION_MADE, the purchase
\* accepted by the store for TRANSACTION_SUCCESS.
C16_SuccessMeansPersisted ==
    \A p \in Procs :
        (done(p) /\ res[p].kind = "return" /\ res[p].success)
        => (/\ xferRes[p] = "confirmed"
            /\ storeRes[p] = "ok"
            /\ res[p].message = PLAN_UPGRADED => stored[p] # {}
            /\ res[p].message = DONATION_MADE => donated
            /\ res[p].message = TRANSACTION_SUCCESS
                  => promMsg[p] = "Promotion purchased")

elements(list) == {list[i] : i \in 1..Len(list)}

nonPaying == {u \in UserIds : ~isPaidSubscriber(u)}

\* Call p has run an own step: it left the await it was suspended at.
moved(p) == upc'[p] # upc[p] \/ idx'[p] # idx[p]

C18_NotifiedOncePerPeriod ==
    \A u \in UserIds : notified[u] <= 1

\* A second period: the user was notified, reset, and notified again, and an
\* overlapping call that finds the user over the limit sends nothing.
C18_Witness ==
    /\ notified["free"] = 1
    /\ \E t \in freeDailyMessages["free"].maxMessagesNotifiedAt : t > 6
    /\ \E p \in Procs :
          /\ upc[p] = "notify_send"
          /\ ~sending[p]
          /\ users[p][idx[p]] = "free"

\* C19 as stated: a call that meets a user whose limit-reached notification
\* was recorded more than six hours before resets the counter and returns
\* the user as active with count 1; no user is reset otherwise.
C19_Original ==
    \A p \in Procs :
        /\ resetBy[p] \subseteq due[p]
        /\ \A u \in due[p] :
              upc[p] \in {"returned", "thrown"}
              => /\ upc[p] = "returned"
                 /\ u \in resetBy[p]
                 /\ u \in elements(activeUsers[p])
                 /\ pushCount[p][u] = 1

\* C19 (amended): a call resets a user exactly when it meets the user with a
\* notification time recorded more than six hours before (never a user
\* whose time was not recorded); the reset leaves count 0 and no time and
\* suspends the call on its message.  If the message is rejected the call
\* rejects and the counter stays as it is.  Otherwise the call applies the
\* limit check to the count it finds then (0 unless overlapping calls
\* counted in the meantime): below the limit the user is returned as active
\* with the count raised by one, at the limit the user is blocked again.
C19_ResetAfterSixHours ==
    [][\A p \in Procs :
          /\ resetBy'[p] = due'[p]
          /\ (upc'[p] = "reset_send" /\ moved(p))
             => LET u == users'[p][idx'[p]]
                IN  /\ u \in resetBy'[p]
                    /\ freeDailyMessages'[u].present
                    /\ freeDailyMessages'[u].count = 0
                    /\ freeDailyMessages'[u].maxMessagesNotifiedAt = {}
          /\ (upc[p] = "reset_send" /\ moved(p))
             => LET u == users[p][idx[p]]
                    count == freeDailyMessages[u].count
                IN  IF upc'[p] = "thrown"
                    THEN freeDailyMessages' = freeDailyMessages
                    ELSE IF count < MAX_FREE_DAILY_MESSAGES
                    THEN /\ u \in elements(activeUsers'[p])
                         /\ pushCount'[p][u] = count + 1
                         /\ freeDailyMessages'[u].count = count + 1
                    ELSE /\ u \notin elements(activeUsers'[p])
                         /\ freeDailyMessages'[u].count = count
                         /\ upc'[p] = "notify_send"]_vars

\* A call met the user more than six hours after the notification, reset
\* the counter and returned the user as active with count 1.
C19_Witness ==
    \E p \in Procs :
        /\ upc[p] = "returned"
        /\ "free" \in resetBy[p]
        /\ "free" \in elements(activeUsers[p])
        /\ pushCount[p]["free"] = 1

\* The token qualifies against the cached total the run read.
qualifies(token, cached) ==
    /\ \A c \in cached : token.totalAmount - c.totalAmount >= 100
    /\ cached = {} => token.totalAmount >= 100
    /\ token.amount >= 100
    /\ token.chainId = "solana"

\* C20: a run goes on to notify for a token only when the feed totalAmount
\* exceeds the cached totalAmount (0 if uncached) by at least 100, the
\* amount is at least 100 and the chain is solana; the cache holds the
\* feed totalAmount before anybody is notified, and nobody is notified more
\* than once of one unchanged feed entry, overlapping runs included.
C20_NotifiedAtMostOnce ==
    /\ \A p \in Procs :
          bpc[p] \in {"getPoolInfo", "getAllWithPlatform", "getActiveUsers"}
          => qualifies(boostedToken[p], cachedBoost[p])
    /\ \A p \in Procs :
          (bpc[p] \in {"getAllWithPlatform", "getActiveUsers"}
           /\ boostedToken[p] = feed)
          => \E c \in dexScreenerCache : c.totalAmount = feed.totalAmount
    /\ \A u \in UserIds : boostsSent[u] <= 1


====
